---------------------------- MODULE Spec2Model ----------------------------
(***************************************************************************)
(* Model of src/nhl_due.py: the daily NHL "due" goal-scorer tracker.       *)
(*                                                                         *)
(* Dates are day ordinals (integers); date subtraction is integer          *)
(* subtraction.  A JSON object is a record whose DOMAIN holds exactly the  *)
(* keys that are present, so a missing key is a field that is not in the   *)
(* DOMAIN.  An Optional value is a sequence of length 0 (None) or 1.       *)
(* Floats are exact rationals [n, d] in lowest terms with d > 0: for the   *)
(* inputs drawn here (goals-per-game is a power of two) the float product  *)
(* of line 238 is the correctly rounded quotient, so it compares with an   *)
(* integer exactly as the rational does.                                   *)
(***************************************************************************)
EXTENDS Integers, Sequences, FiniteSets

\* ------------------------------------------------------------- bounds
MaxScorers == 2
MaxLog == 1
MaxSched == 2
MaxDates == 4

\* ------------------------------------------------- program constants
MinGoals == 40
EmptyStr == 0
CurrentSeasonId == 20232024
SeasonStart == 0

\* ------------------------------------------------------- input domains
\* the evaluation date.  Only differences of dates are ever read, so one
\* evaluation date stands for all.
TodayArg == 1
\* the calendar: the day before the evaluation date, that date, the day after
Days == {TodayArg - 1, TodayArg, TodayArg + 1}
\* team ids
Teams == {1, 2}
GoalTotals == {MinGoals - 1, MinGoals}
GamesPlayedTotals == {0, 20}

SeqsUpTo(S, n) == UNION {[1..k -> S] : k \in 0..n}

\* one game of the day schedule: game["teams"][side]["team"]["id"], a side
\* may be missing
Game == UNION {[D -> Teams] : D \in SUBSET {"home", "away"}}
\* the schedule of one day for two teams: no game, or one
DaySchedules == {<<>>} \cup {<<g>> : g \in Game}

\* one row of the skater summary
SummaryEntry == [teamId : Teams, goals : GoalTotals, gamesPlayed : GamesPlayedTotals]
Summaries == SeqsUpTo(SummaryEntry, MaxScorers)

\* one row of a player game log; "gameDate" may be missing
LogEntry == [gameDate : Days, goals : {0, 1}] \cup [goals : {0, 1}]
GameLogs == SeqsUpTo(LogEntry, MaxLog)

\* one block of a team schedule; "date" may be missing
DateBlock == [date : Days] \cup {[other |-> 0]}
TeamSchedules == SeqsUpTo(DateBlock, MaxSched)

\* ------------------------------------------------------------ rationals
RECURSIVE Gcd(_, _)
Gcd(a, b) == IF b = 0 THEN a ELSE Gcd(b, a % b)

Abs(x) == IF x < 0 THEN -x ELSE x

\* n / d as a float value, d # 0
Rat(n, d) ==
    LET s == IF d < 0 THEN -1 ELSE 1
        g == Gcd(Abs(n), Abs(d))
    IN  [n |-> (s * n) \div g, d |-> (s * d) \div g]

RatZero == [n |-> 0, d |-> 1]

\* a * b
RatMul(a, b) == Rat(a.n * b.n, a.d * b.d)

\* i <= q for an integer i
IntLeqRat(i, q) == i * q.d <= q.n


\* ------------------------------------------------------ pure functions
Range(s) == {s[i] : i \in 1..Len(s)}

RECURSIVE SumSeq(_)
SumSeq(s) == IF s = <<>> THEN 0 ELSE s[1] + SumSeq(Tail(s))

RECURSIVE MaxOfSet(_)
MaxOfSet(S) ==
    LET x == CHOOSE y \in S : TRUE
    IN  IF S = {x} THEN x
        ELSE LET m == MaxOfSet(S \ {x}) IN IF x > m THEN x ELSE m

\* insert x into the ascending sequence s, after the elements equal to x
RECURSIVE Insert(_, _)
Insert(x, s) ==
    IF s = <<>> THEN <<x>>
    ELSE IF x < s[1] THEN <<x>> \o s
    ELSE <<s[1]>> \o Insert(x, Tail(s))

\* sorted(dates): ascending, duplicates kept
RECURSIVE sorted(_)
sorted(s) == IF s = <<>> THEN <<>> ELSE Insert(s[Len(s)], sorted(SubSeq(s, 1, Len(s) - 1)))

\* PlayerBaseline.goals_per_game
goals_per_game(player) ==
    IF player.games_played = 0 THEN RatZero
    ELSE Rat(player.goals, player.games_played)

\* the rows fetch_top_goal_scorers keeps: goals >= min_goals, in the
\* order of the response; playerId is the row's place in the response
RECURSIVE TopGoalScorersFrom(_, _)
TopGoalScorersFrom(data, k) ==
    IF k > Len(data) THEN <<>>
    ELSE IF data[k].goals < MinGoals THEN TopGoalScorersFrom(data, k + 1)
    ELSE <<[player_id |-> k, team_id |-> data[k].teamId,
            goals |-> data[k].goals, games_played |-> data[k].gamesPlayed]>>
         \o TopGoalScorersFrom(data, k + 1)

fetch_top_goal_scorers(data) == TopGoalScorersFrom(data, 1)

\* _extract_schedule_dates: a block without "date" raises KeyError, which
\* is caught, and the block is skipped
RECURSIVE extract_schedule_dates(_)
extract_schedule_dates(schedule) ==
    IF schedule = <<>> THEN <<>>
    ELSE IF "date" \in DOMAIN schedule[1]
         THEN <<schedule[1].date>> \o extract_schedule_dates(Tail(schedule))
         ELSE extract_schedule_dates(Tail(schedule))

AverageUnsorted(dates) ==
    IF Len(dates) < 2 THEN RatZero
    ELSE Rat(SumSeq([i \in 1..(Len(dates) - 1) |-> dates[i + 1] - dates[i]]),
             Len(dates) - 1)

average_days_between_games(dates) ==
    IF Len(dates) < 2 THEN RatZero
    ELSE LET sorted_dates == sorted(dates)
             deltas == [i \in 1..(Len(dates) - 1) |->
                           sorted_dates[i + 1] - sorted_dates[i]]
         IN  Rat(SumSeq(deltas), Len(deltas))

\* last_goal_date evaluates entry["gameDate"] only for the entries that
\* pass the filter goals > 0: KeyError when such an entry has no gameDate
LastGoalDateRaises(game_log) ==
    \E i \in 1..Len(game_log) :
        game_log[i].goals > 0 /\ "gameDate" \notin DOMAIN game_log[i]

\* last_goal_date when it does not raise: <<>> is None
last_goal_date(game_log) ==
    LET goal_games == {game_log[i].gameDate :
                          i \in {j \in 1..Len(game_log) : game_log[j].goals > 0}}
    IN  IF goal_games = {} THEN <<>> ELSE <<MaxOfSet(goal_games)>>

\* games_played_dates evaluates entry["gameDate"] for every entry
GamesPlayedDatesRaises(game_log) ==
    \E i \in 1..Len(game_log) : "gameDate" \notin DOMAIN game_log[i]

games_played_dates(game_log) == [i \in 1..Len(game_log) |-> game_log[i].gameDate]

\* the set built by lines 210-216
TeamsPlayingToday(schedule) ==
    UNION {{schedule[k][side] : side \in DOMAIN schedule[k]} : k \in 1..Len(schedule)}

NextGameHomeOnly(schedule, team_id) ==
    LET hits == {k \in 1..Len(schedule) :
                    "home" \in DOMAIN schedule[k] /\ schedule[k].home = team_id}
    IN  IF hits = {} THEN <<>>
        ELSE LET k == CHOOSE h \in hits : \A o \in hits : h <= o
             IN  <<[opponent |-> IF "away" \in DOMAIN schedule[k]
                                 THEN schedule[k].away ELSE EmptyStr,
                    startTime |-> k]>>

\* _next_game_for_team: the first game, and in it the first side of
\* ("home", "away"), whose team id is team_id; <<>> is None.  A team's name
\* is its id and a game's start time is its place in the schedule.
next_game_for_team(schedule, team_id) ==
    LET sides(k) == {sd \in DOMAIN schedule[k] : schedule[k][sd] = team_id}
        hits == {k \in 1..Len(schedule) : sides(k) # {}}
    IN  IF hits = {} THEN <<>>
        ELSE LET k == CHOOSE h \in hits : \A o \in hits : h <= o
                 side == IF "home" \in sides(k) THEN "home" ELSE "away"
                 opponent_side == IF side = "home" THEN "away" ELSE "home"
             IN  <<[opponent |-> IF opponent_side \in DOMAIN schedule[k]
                                 THEN schedule[k][opponent_side] ELSE EmptyStr,
                    startTime |-> k]>>

\* line 238
ExpectedDays(player, avg_days) ==
    LET gpg == goals_per_game(player)
    IN  RatMul(Rat(gpg.d, gpg.n), avg_days)

\* line 240: the candidate is not due
NotDueStrict(days_since_goal, expected_days) ==
    days_since_goal * expected_days.d < expected_days.n

NotDue(days_since_goal, expected_days) == IntLeqRat(days_since_goal, expected_days)

\* f"{x:.1f}": the tenths of x, rounded half to even, as <<whole, tenth>>
OneDecimal(q) ==
    LET t == (10 * q.n) \div q.d
        r == (10 * q.n) % q.d
        up == IF 2 * r > q.d THEN 1
              ELSE IF 2 * r = q.d /\ t % 2 = 1 THEN 1 ELSE 0
    IN  <<(t + up) \div 10, (t + up) % 10>>

NoDueSentence == <<"No players are past due based on last season's scoring rate.">>
TitleLine == <<"Past due goal scorers with games today:">>
HeaderLine == <<"Player", "Team", "Days Since Last Goal", "Expected Days", "Opponent", "Game Time">>
SeparatorLine == <<"------", "----", "--------------------", "-------------", "--------", "---------">>

DueRowSwapped(entry) ==
    <<entry.player.player_id, entry.player.team_id, entry.days_since_last_goal,
      OneDecimal(entry.expected_days_between_goals),
      entry.next_game_start_time, entry.next_game_opponent>>

\* one row of the table: the fields the f-string joins with " | "
DueRow(entry) ==
    <<entry.player.player_id, entry.player.team_id, entry.days_since_last_goal,
      OneDecimal(entry.expected_days_between_goals),
      entry.next_game_opponent, entry.next_game_start_time>>

\* format_due_players: the lines that "\n".join puts together
format_due_players(due) ==
    IF due = <<>> THEN <<NoDueSentence>>
    ELSE <<TitleLine, HeaderLine, SeparatorLine>> \o [i \in 1..Len(due) |-> DueRow(due[i])]


\* ---------------------------------------------------------------- state
VARIABLES
    pc,                  \* the position of the run
    today,               \* evaluate_due_players' argument
    current_season,      \* evaluate_due_players' locals
    previous_season,
    season_start,
    schedule_today,
    teams_playing_today,
    baselines,
    idx,                 \* the place in baselines of the loop's player
    last_goal,
    played_dates,
    due_players,
    returned,            \* <<list>> once evaluate_due_players has returned
    error,               \* the exception that ended the run, "" if none
    output,              \* what the entry point printed
    fetch_log,           \* history: the requests _get_json was called for
    excluded,            \* history: the top scorers the team filter removed
    decision,            \* history: how the last finished candidate ended
    dates_arg,           \* the argument of a lone average_days_between_games call
    avg_result           \* <<its result>>

runVars == <<pc, today, current_season, previous_season, season_start, schedule_today,
             teams_playing_today, baselines, idx, last_goal, played_dates,
             due_players, returned, error, output, fetch_log, excluded, decision>>
avgVars == <<dates_arg, avg_result>>
vars == <<runVars, avgVars>>

\* decision.kind is how the candidate ended, decision.days its
\* days-since-last-goal when line 239 computed it (0 otherwise), and
\* decision.boundary whether that equalled its expected days
NoDecision == [kind |-> "none", days |-> 0, boundary |-> FALSE]
MissingSignal == {"no_goal", "zero_cadence", "zero_rate", "no_game"}

InitRun(start) ==
    /\ pc = start
    /\ today = TodayArg
    /\ current_season = 0
    /\ previous_season = 0
    /\ season_start = 0
    /\ schedule_today = <<>>
    /\ teams_playing_today = {}
    /\ baselines = <<>>
    /\ idx = 0
    /\ last_goal = <<>>
    /\ played_dates = <<>>
    /\ due_players = <<>>
    /\ returned = <<>>
    /\ error = ""
    /\ output = <<>>
    /\ fetch_log = <<>>
    /\ excluded = {}
    /\ decision = NoDecision

Init ==
    /\ InitRun("L204")
    /\ dates_arg = <<>>
    /\ avg_result = <<>>

\* the positions at which the run calls _get_json
FetchPcs == {"L204", "L206", "L209", "L220", "L226", "L231"}

\* the request made at position p
RequestAt(p) ==
    CASE p = "L204" -> <<"seasons", 0>>
      [] p = "L206" -> <<"seasons", current_season>>
      [] p = "L209" -> <<"schedule_day", today>>
      [] p = "L220" -> <<"skater_summary", previous_season>>
      [] p = "L226" -> <<"gamelog", baselines[idx].player_id>>
      [] p = "L231" -> <<"schedule_range", baselines[idx].team_id>>

\* _get_json returned a response at position pc
Fetched == fetch_log' = Append(fetch_log, RequestAt(pc))

RaiseSwallowed(exc) ==
    /\ pc' = "returned"
    /\ returned' = <<due_players>>
    /\ error' = exc

\* an exception leaves evaluate_due_players: nothing is returned
Raise(exc) ==
    /\ pc' = "raised"
    /\ error' = exc
    /\ returned' = returned

\* a return statement of evaluate_due_players
Return(due) ==
    /\ pc' = "returned"
    /\ returned' = <<due>>
    /\ error' = error

\* the for statement of line 225 takes its next player, or the loop ends
\* and line 255 returns.  The body's locals are assigned again before the
\* next iteration reads them, so the model drops them here.
NextCandidate(due) ==
    /\ idx' = idx + 1
    /\ due_players' = due
    /\ last_goal' = <<>>
    /\ played_dates' = <<>>
    /\ IF idx + 1 > Len(baselines)
       THEN Return(due)
       ELSE pc' = "L226" /\ returned' = returned /\ error' = error

ContinueBreaks(kind, days, boundary) ==
    /\ idx' = idx + 1
    /\ due_players' = due_players
    /\ last_goal' = <<>>
    /\ played_dates' = <<>>
    /\ Return(due_players)
    /\ decision' = [kind |-> kind, days |-> days, boundary |-> boundary]

\* a continue statement (lines 229, 235, 237, 241, 244)
Continue(kind, days, boundary) ==
    /\ NextCandidate(due_players)
    /\ decision' = [kind |-> kind, days |-> days, boundary |-> boundary]

EmitFirst(due, record) == <<record>> \o due

\* lines 245-254: due_players.append(...)
EmitRecord(due, record) == Append(due, record)


\* -------------------------------------------------------------- actions
\* lines 204-205
GetCurrentSeasonId ==
    /\ pc = "L204"
    /\ Fetched
    /\ current_season' = CurrentSeasonId
    /\ previous_season' = CurrentSeasonId - 1
    /\ pc' = "L206"
    /\ UNCHANGED <<today, season_start, schedule_today, teams_playing_today, baselines,
                   idx, last_goal, played_dates, due_players, returned, error,
                   output, excluded, decision, avgVars>>

\* lines 206-207
GetSeasonDates ==
    /\ pc = "L206"
    /\ Fetched
    /\ season_start' = SeasonStart
    /\ pc' = "L209"
    /\ UNCHANGED <<today, current_season, previous_season, schedule_today,
                   teams_playing_today, baselines, idx, last_goal, played_dates,
                   due_players, returned, error, output, excluded, decision,
                   avgVars>>

\* lines 209-216
FetchScheduleForDay ==
    /\ pc = "L209"
    /\ \E schedule \in DaySchedules :
        /\ schedule_today' = schedule
        /\ teams_playing_today' = TeamsPlayingToday(schedule)
    /\ Fetched
    /\ pc' = "L220"
    /\ UNCHANGED <<today, current_season, previous_season, season_start, baselines, idx,
                   last_goal, played_dates, due_players, returned, error, output,
                   excluded, decision, avgVars>>

KeepAll(player) == TRUE

\* line 221
PlaysToday(player) == player.team_id \in teams_playing_today

\* lines 218-225, and line 255 when there is no candidate
FetchTopGoalScorers ==
    /\ pc = "L220"
    /\ \E data \in Summaries :
        LET scorers == fetch_top_goal_scorers(data)
            kept == SelectSeq(scorers, PlaysToday)
        IN  /\ baselines' = kept
            /\ excluded' = {[player_id |-> p.player_id, team_id |-> p.team_id] :
                               p \in {q \in Range(scorers) :
                                         q.team_id \notin teams_playing_today}}
            /\ IF kept = <<>>
               THEN Return(due_players)
               ELSE pc' = "L226" /\ returned' = returned /\ error' = error
    /\ Fetched
    /\ idx' = 1
    /\ UNCHANGED <<today, current_season, previous_season, season_start, schedule_today,
                   teams_playing_today, last_goal, played_dates, due_players,
                   output, decision, avgVars>>

\* lines 226-230
FetchPlayerGamelog ==
    /\ pc = "L226"
    /\ \E game_log \in GameLogs :
        IF LastGoalDateRaises(game_log)
        THEN /\ Raise("KeyError")
             /\ UNCHANGED <<idx, last_goal, played_dates, due_players, decision>>
        ELSE IF last_goal_date(game_log) = <<>>
        THEN Continue("no_goal", 0, FALSE)
        ELSE IF GamesPlayedDatesRaises(game_log)
        THEN /\ last_goal' = last_goal_date(game_log)
             /\ Raise("KeyError")
             /\ UNCHANGED <<idx, played_dates, due_players, decision>>
        ELSE /\ last_goal' = last_goal_date(game_log)
             /\ played_dates' = games_played_dates(game_log)
             /\ pc' = "L231"
             /\ UNCHANGED <<idx, due_players, returned, error, decision>>
    /\ Fetched
    /\ UNCHANGED <<today, current_season, previous_season, season_start, schedule_today,
                   teams_playing_today, baselines, output, excluded, avgVars>>

\* lines 231-254
FetchScheduleForRange ==
    /\ pc = "L231"
    /\ \E team_schedule \in TeamSchedules :
       \E schedule_dates \in {extract_schedule_dates(team_schedule)} :
       \E avg_days \in {average_days_between_games(
                            IF schedule_dates # <<>> THEN schedule_dates
                            ELSE played_dates)} :
        LET player == baselines[idx]
            expected_days == ExpectedDays(player, avg_days)
            days_since_goal == today - last_goal[1]
            next_game == next_game_for_team(schedule_today, player.team_id)
        IN  IF avg_days.n = 0
            THEN Continue("zero_cadence", 0, FALSE)
            ELSE IF goals_per_game(player).n = 0
            THEN Continue("zero_rate", 0, FALSE)
            ELSE IF NotDue(days_since_goal, expected_days)
            THEN Continue("not_due", days_since_goal,
                          days_since_goal * expected_days.d = expected_days.n)
            ELSE IF next_game = <<>>
            THEN Continue("no_game", days_since_goal, FALSE)
            ELSE /\ NextCandidate(EmitRecord(due_players,
                        [player |-> player,
                         last_goal_date |-> last_goal[1],
                         days_since_last_goal |-> days_since_goal,
                         expected_days_between_goals |-> expected_days,
                         next_game_opponent |-> next_game[1].opponent,
                         next_game_start_time |-> next_game[1].startTime]))
                 /\ decision' = [kind |-> "due", days |-> days_since_goal,
                                 boundary |-> FALSE]
    /\ Fetched
    /\ UNCHANGED <<today, current_season, previous_season, season_start, schedule_today,
                   teams_playing_today, baselines, output, excluded, avgVars>>

\* lines 69-80: the request of position pc fails and _get_json raises
GetJsonRaises ==
    /\ pc \in FetchPcs
    /\ fetch_log' = Append(fetch_log, RequestAt(pc))
    /\ Raise("NhlApiError")
    /\ UNCHANGED <<today, current_season, previous_season, season_start, schedule_today,
                   teams_playing_today, baselines, idx, last_goal, played_dates,
                   due_players, output, excluded, decision, avgVars>>

\* lines 280-281
PrintDuePlayers ==
    /\ pc = "returned"
    /\ output' = format_due_players(returned[1])
    /\ pc' = "exit"
    /\ UNCHANGED <<today, current_season, previous_season, season_start, schedule_today,
                   teams_playing_today, baselines, idx, last_goal, played_dates,
                   due_players, returned, error, fetch_log, excluded, decision,
                   avgVars>>

\* lines 282-283
PrintError ==
    /\ pc = "raised"
    /\ output' = <<<<"Error", error>>>>
    /\ pc' = "exit"
    /\ UNCHANGED <<today, current_season, previous_season, season_start, schedule_today,
                   teams_playing_today, baselines, idx, last_goal, played_dates,
                   due_players, returned, error, fetch_log, excluded, decision,
                   avgVars>>

Next ==
    \/ GetCurrentSeasonId
    \/ GetSeasonDates
    \/ FetchScheduleForDay
    \/ FetchTopGoalScorers
    \/ FetchPlayerGamelog
    \/ FetchScheduleForRange
    \/ GetJsonRaises
    \/ PrintDuePlayers
    \/ PrintError

Spec == Init /\ [][Next]_vars

\* ------------------------------ a lone call of average_days_between_games
InitAvg ==
    /\ InitRun("idle")
    /\ dates_arg \in SeqsUpTo(Days, MaxDates)
    /\ avg_result = <<>>

CallAverage ==
    /\ avg_result = <<>>
    /\ avg_result' = <<average_days_between_games(dates_arg)>>
    /\ UNCHANGED <<runVars, dates_arg>>

NextAvg == CallAverage

SpecAvg == InitAvg /\ [][NextAvg]_vars


\* --------------------------------------------------------------- claims
\* the place of a player in baselines (player ids are unique)
PlaceOf(player) == CHOOSE k \in 1..Len(baselines) : baselines[k] = player

\* some game of the day's schedule has team_id on one of its sides
HasGameToday(team_id) ==
    \E k \in 1..Len(schedule_today) :
        \E side \in DOMAIN schedule_today[k] : schedule_today[k][side] = team_id

\* C1: every record of the due list has days-since-last-goal strictly
\* greater than expected-days-between-goals and belongs to a team with a game
\* in the day's schedule; a candidate whose two values are equal is not due
\* and adds no record.
C1_DueOnlyWhenPastDue ==
    /\ \A i \in 1..Len(due_players) :
          LET r == due_players[i]
              e == r.expected_days_between_goals
          IN  /\ r.days_since_last_goal * e.d > e.n
              /\ r.days_since_last_goal = today - r.last_goal_date
              /\ HasGameToday(r.player.team_id)
    /\ decision.boundary => decision.kind = "not_due"

\* C1's case: a candidate with equal values was passed over after another
\* had been emitted
C1_Witness ==
    /\ decision.boundary
    /\ decision.kind = "not_due"
    /\ Len(due_players) >= 1
    /\ idx = 3

\* C9: every record of the due list has a non-negative
\* days-since-last-goal and a non-negative expected-days-between-goals, also
\* when a candidate's last goal lies after the evaluation date.
C9_RecordsNonNegative ==
    \A i \in 1..Len(due_players) :
        /\ due_players[i].days_since_last_goal >= 0
        /\ due_players[i].expected_days_between_goals.n >= 0
        /\ due_players[i].expected_days_between_goals.d > 0

\* C9's case: a candidate whose last goal lies after the evaluation date
\* has been decided, after another had been emitted
C9_Witness ==
    /\ decision.days < 0
    /\ decision.kind = "not_due"
    /\ Len(due_players) >= 1

\* C10: no candidate is ever excluded for want of a game in the day's
\* schedule: every candidate that reaches the lookup of line 242 is emitted.
C10_NoGameUnreachable == decision.kind # "no_game"

\* C10's case: a candidate was emitted whose team is only the away side of
\* its game
C10_Witness ==
    /\ decision.kind = "due"
    /\ Len(due_players) >= 1
    /\ LET r == due_players[Len(due_players)]
       IN  /\ "away" \in DOMAIN schedule_today[1]
           /\ schedule_today[1].away = r.player.team_id
           /\ "home" \in DOMAIN schedule_today[1]
           /\ schedule_today[1].home # r.player.team_id
           /\ r.next_game_opponent = schedule_today[1].home

\* C5: the due list is an order-preserving subsequence of baselines: its
\* records' players are candidates already taken by the loop, in strictly
\* increasing place, so each candidate has at most one record; and the list
\* that is returned is that list.
C5_OrderPreserved ==
    /\ \A i \in 1..Len(due_players) :
          /\ due_players[i].player \in Range(baselines)
          /\ PlaceOf(due_players[i].player) < idx
    /\ \A i, j \in 1..Len(due_players) :
          i < j => PlaceOf(due_players[i].player) < PlaceOf(due_players[j].player)
    /\ returned # <<>> => returned[1] = due_players

\* C5's case: a list of two records was returned
C5_Witness ==
    /\ pc = "returned"
    /\ Len(returned[1]) = 2

\* C6: for a top scorer whose team has no game in the day's schedule, the
\* player's game log and the team's schedule range are never requested and
\* no record is emitted.
C6_FilteredBeforeFetch ==
    \A e \in excluded :
        /\ e.team_id \notin teams_playing_today
        /\ <<"gamelog", e.player_id>> \notin Range(fetch_log)
        /\ <<"schedule_range", e.team_id>> \notin Range(fetch_log)
        /\ \A i \in 1..Len(due_players) :
              due_players[i].player.player_id # e.player_id
        /\ \A k \in 1..Len(baselines) : baselines[k].player_id # e.player_id

\* C6's case: a run with a filtered top scorer made per-player requests for
\* another and returned
C6_Witness ==
    /\ pc = "returned"
    /\ excluded # {}
    /\ \E k \in 1..Len(fetch_log) : fetch_log[k][1] = "schedule_range"
    /\ Len(due_players) >= 1

\* a step in which the loop finishes its candidate on a missing signal
MissingSignalStep ==
    /\ idx' = idx + 1
    /\ decision'.kind \in MissingSignal

\* C2: a candidate that hits a missing-signal condition is excluded without
\* an error and the run goes on: the due list is left as it was, the loop
\* takes the next candidate if there is one and returns the list otherwise;
\* and a run that returns has taken every candidate.
C2_SkipDoesNotAbort ==
    /\ [][MissingSignalStep =>
            /\ error' = ""
            /\ due_players' = due_players
            /\ IF idx' <= Len(baselines)
               THEN pc' = "L226" /\ returned' = <<>>
               ELSE pc' = "returned" /\ returned' = <<due_players>>]_vars
    /\ [](pc = "returned" => idx = Len(baselines) + 1)

\* C2's case: the first of two candidates, with no game played last season,
\* was excluded on a missing signal, and the second was then found due
C2_Witness ==
    /\ pc = "returned"
    /\ Len(baselines) = 2
    /\ baselines[1].games_played = 0
    /\ Len(returned[1]) = 1
    /\ returned[1][1].player = baselines[2]

\* C3: a game-log entry without its game date is skipped, and
\* evaluate_due_players does not end in an error because a candidate's log
\* holds such an entry.
C3_MalformedEntrySkipped == error # "KeyError"

\* C4: once a fetch has failed the run has ended with the provider error:
\* nothing has been returned, the failed request is the last one made, no
\* further request is made, and the entry point prints the error only.
C4_FetchFailureIsTerminal ==
    /\ [](error = "NhlApiError" =>
            /\ pc \in {"raised", "exit"}
            /\ returned = <<>>
            /\ (pc = "exit" => output = <<<<"Error", "NhlApiError">>>>))
    /\ [][error = "NhlApiError" =>
            /\ fetch_log' = fetch_log
            /\ due_players' = due_players
            /\ error' = error]_vars

\* C4's case: the schedule request of the last candidate failed after a
\* record had been accumulated
C4_Witness ==
    /\ error = "NhlApiError"
    /\ Len(due_players) >= 1
    /\ idx = Len(baselines)
    /\ fetch_log[Len(fetch_log)][1] = "schedule_range"

\* the row of a record, field by field
RowOf(r) ==
    <<r.player.player_id, r.player.team_id, r.days_since_last_goal,
      OneDecimal(r.expected_days_between_goals), r.next_game_opponent,
      r.next_game_start_time>>

\* C7 as stated: for n >= 1 records the text is the header line, the
\* separator line and the n rows, n + 2 lines.
C7_HeaderSeparatorRows ==
    (pc = "exit" /\ returned # <<>>) =>
        LET due == returned[1]
        IN  IF due = <<>> THEN output = <<NoDueSentence>>
            ELSE /\ Len(output) = Len(due) + 2
                 /\ output[1] = HeaderLine
                 /\ output[2] = SeparatorLine
                 /\ \A i \in 1..Len(due) : output[2 + i] = RowOf(due[i])

\* C7 amended: for an empty list the text is the literal sentence; for n >= 1
\* records it is the title line, the header line, the separator line and
\* then one row per record in input order, n + 3 lines, each row holding
\* name, team, days-since-last-goal, expected-days to one decimal, opponent
\* and start time in that order.
C7_TitleHeaderSeparatorRows ==
    (pc = "exit" /\ returned # <<>>) =>
        LET due == returned[1]
        IN  IF due = <<>> THEN output = <<NoDueSentence>>
            ELSE /\ Len(output) = Len(due) + 3
                 /\ output[1] = TitleLine
                 /\ output[2] = HeaderLine
                 /\ output[3] = SeparatorLine
                 /\ \A i \in 1..Len(due) : output[3 + i] = RowOf(due[i])

\* C7's case: a list of two records was printed
C7_Witness ==
    /\ pc = "exit"
    /\ returned # <<>>
    /\ Len(returned[1]) = 2
    /\ Len(output) = 5

IsPermutation(f, n) == \A k \in 1..n : \E i \in 1..n : f[i] = k

\* the ascending arrangement of dates, duplicates kept
Ascending(dates) ==
    CHOOSE s \in [1..Len(dates) -> Range(dates)] :
        /\ \A i \in 1..(Len(dates) - 1) : s[i] <= s[i + 1]
        /\ \A d \in Range(dates) :
              Cardinality({i \in 1..Len(dates) : s[i] = d})
                  = Cardinality({i \in 1..Len(dates) : dates[i] = d})

\* C8: average_days_between_games is 0.0 for fewer than 2 dates, and for 2
\* or more it is the mean of the whole-day gaps between neighbours of the
\* ascending arrangement, duplicates kept; every permutation of the dates
\* has the same result.
C8_MeanGapOfSortedDates ==
    avg_result # <<>> =>
        LET n == Len(dates_arg)
            r == avg_result[1]
        IN  /\ n < 2 => r = RatZero
            /\ n >= 2 =>
                  LET asc == Ascending(dates_arg)
                  IN  /\ r.d > 0
                      /\ r.n * (n - 1)
                            = r.d * SumSeq([i \in 1..(n - 1) |-> asc[i + 1] - asc[i]])
            /\ \A f \in [1..n -> 1..n] :
                  IsPermutation(f, n) =>
                      average_days_between_games([i \in 1..n |-> dates_arg[f[i]]]) = r

\* C8's case: the average of three or more dates that are not in ascending
\* order and hold a duplicate was taken, and is not 0
C8_Witness ==
    /\ avg_result # <<>>
    /\ Len(dates_arg) >= 3
    /\ \E i \in 1..(Len(dates_arg) - 1) : dates_arg[i] > dates_arg[i + 1]
    /\ \E i, j \in 1..Len(dates_arg) : i # j /\ dates_arg[i] = dates_arg[j]
    /\ avg_result[1].n > 0

==========================================================================
